---- MODULE Spec2Model ----
(***************************************************************************)
(* Model of the iced text editor (src/main.rs): the Editor state, the      *)
(* update function (one action per Message arm) and the three background   *)
(* futures save_file, pick_file and load_file, whose results come back as  *)
(* FileSaved / FileOpened messages.                                        *)
(***************************************************************************)
EXTENDS Integers, Sequences, FiniteSets, TLC

VARIABLES path, content, error, theme, is_dirty,  \* struct Editor
          disk,      \* the file system: text stored at each path
          tasks,     \* futures handed to Command::perform, not yet finished
          inbox,     \* finished futures' messages, not yet given to update
          nextId,    \* number of commands performed so far
          last,      \* the step just taken (message given to update, or a future's step)
          prev,      \* error and is_dirty before the step just taken
          snapshot,  \* per save command: content.text() when Save was handled
          written,   \* per save command: what tokio::fs::write wrote, and where
          synced,    \* text of the last successful load or save given to update
          unsaved,   \* load commands overtaken by an edit that is still unsaved
          delivered, \* per command: how many of its messages update has been given
          failure,   \* error of the last failed command, if no Edit came after it
          run        \* the Ok messages given to update one after another, with no
                     \* other message between them

editor == <<path, content, error, theme, is_dirty>>
vars == <<path, content, error, theme, is_dirty, disk, tasks, inbox, nextId,
          last, prev, snapshot, written, synced, unsaved, delivered, failure, run>>

----------------------------------------------------------------------------
(* Bounds *)

MaxLen == 1        \* longest buffer an Insert may produce
MaxEffects == 2    \* commands performed in one run, the startup load included

----------------------------------------------------------------------------
(* Values *)

NL == "\n"
NoPath == "None"
DefaultFile == "main.rs"
Paths == {DefaultFile, "b.txt"}
IoKinds == {"NotFound"}
Themes == {"SolarizedDark", "InspiredGitHub"}

NoError == [tag |-> "None", kind |-> "none"]
DialogClosed == [tag |-> "DialogClosed", kind |-> "none"]
IoFailed(kind) == [tag |-> "IoFailed", kind |-> kind]
Errors == {DialogClosed} \cup {IoFailed(k) : k \in IoKinds}

IncludedText == <<"a">>

----------------------------------------------------------------------------
(* text_editor::Content: the text and the cursor *)

ContentWith(t) == [text |-> t, cursor |-> 0]

ContentNew == ContentWith(<<>>)

ContentText(c) ==
    IF Len(c.text) > 0 /\ c.text[Len(c.text)] = NL
    THEN c.text
    ELSE Append(c.text, NL)

\* text_editor::Action: Edit(Insert(ch)), Edit(Backspace), Move(Left), Move(Right)
Actions == [kind : {"Insert", "Backspace", "MoveLeft", "MoveRight"}, ch : {"a"}]

is_edit(action) == action.kind \in {"Insert", "Backspace"}

InsertAt(c, ch) ==
    [text |-> SubSeq(c.text, 1, c.cursor) \o <<ch>>
                \o SubSeq(c.text, c.cursor + 1, Len(c.text)),
     cursor |-> c.cursor + 1]

ContentEdit(c, action) ==
    CASE action.kind = "Insert" -> InsertAt(c, action.ch)
      [] action.kind = "Backspace" ->
            IF c.cursor = 0 THEN c
            ELSE [text |-> SubSeq(c.text, 1, c.cursor - 1)
                             \o SubSeq(c.text, c.cursor + 1, Len(c.text)),
                  cursor |-> c.cursor - 1]
      [] action.kind = "MoveLeft" ->
            [c EXCEPT !.cursor = IF c.cursor = 0 THEN 0 ELSE c.cursor - 1]
      [] action.kind = "MoveRight" ->
            [c EXCEPT !.cursor = IF c.cursor = Len(c.text) THEN c.cursor
                                 ELSE c.cursor + 1]

----------------------------------------------------------------------------
(* Messages and the view *)

Msg(type, id, p, t, e) == [type |-> type, id |-> id, path |-> p, text |-> t, err |-> e]

Step(type, edit) == [type |-> type, is_edit |-> edit, arg |-> ""]

\* mutant: the status bar shows every error, a closed dialog included
status_bar_AnyError(p, e) ==
    IF e.tag # "None" THEN e.tag
    ELSE IF p # NoPath THEN p ELSE "New file"

status_bar(p, e) ==
    IF e.tag = "IoFailed" THEN e.kind
    ELSE IF p # NoPath THEN p ELSE "New file"

Before == [error |-> error, is_dirty |-> is_dirty]

TextWritten(id) == (CHOOSE w \in written : w.id = id).text

Running == {t.id : t \in tasks}

Waiting == {inbox[i].id : i \in 1..Len(inbox)}

DeliveredIds == {d.id : d \in delivered}

Deliver(id) ==
    IF id \in DeliveredIds
    THEN {IF d.id = id THEN [d EXCEPT !.n = @ + 1] ELSE d : d \in delivered}
    ELSE delivered \cup {[id |-> id, n |-> 1]}

PendingLoads ==
    {t.id : t \in {u \in tasks : u.kind \in {"pick", "load"}}}
      \cup {inbox[i].id : i \in {j \in 1..Len(inbox) :
                                   inbox[j].type \in {"FileOpenedOk", "FileOpenedErr"}}}

----------------------------------------------------------------------------
(* Editor::new *)

Init ==
    /\ path = NoPath
    /\ content = ContentWith(IncludedText)
    /\ error = NoError
    /\ theme = "SolarizedDark"
    /\ is_dirty = TRUE
    /\ disk = [p \in Paths |-> IF p = DefaultFile THEN IncludedText ELSE <<NL>>]
    /\ tasks = {[id |-> 1, kind |-> "load", stage |-> "read",
                 path |-> DefaultFile, text |-> <<>>]}
    /\ inbox = <<>>
    /\ nextId = 1
    /\ last = Step("Init", FALSE)
    /\ prev = [error |-> NoError, is_dirty |-> TRUE]
    /\ snapshot = {}
    /\ written = {}
    /\ synced = <<>>
    /\ unsaved = {}
    /\ delivered = {}
    /\ failure = NoError
    /\ run = <<>>

----------------------------------------------------------------------------
(* Editor::update, one action per arm *)

\* mutant: an edit writes the buffer to the file at path
Edit_Autosave(action) ==
    /\ Len(content.text) < MaxLen \/ action.kind # "Insert"
    /\ is_dirty' = (is_dirty \/ is_edit(action))
    /\ error' = NoError
    /\ content' = ContentEdit(content, action)
    /\ disk' = IF path = NoPath THEN disk
               ELSE [disk EXCEPT ![path] = ContentText(ContentEdit(content, action))]
    /\ last' = Step("Edit", is_edit(action))
    /\ prev' = Before
    /\ run' = <<>>
    /\ delivered' = delivered
    /\ failure' = NoError
    /\ unsaved' = IF is_edit(action) THEN PendingLoads ELSE unsaved
    /\ UNCHANGED <<path, theme, tasks, inbox, nextId, snapshot, written, synced>>

\* mutant: an edit leaves the error in place
Edit_KeepsError(action) ==
    /\ Len(content.text) < MaxLen \/ action.kind # "Insert"
    /\ is_dirty' = (is_dirty \/ is_edit(action))
    /\ content' = ContentEdit(content, action)
    /\ last' = Step("Edit", is_edit(action))
    /\ prev' = Before
    /\ run' = <<>>
    /\ delivered' = delivered
    /\ failure' = NoError
    /\ unsaved' = IF is_edit(action) THEN PendingLoads ELSE unsaved
    /\ UNCHANGED <<path, error, theme, disk, tasks, inbox, nextId, snapshot, written, synced>>

Edit(action) ==
    /\ Len(content.text) < MaxLen \/ action.kind # "Insert"
    /\ is_dirty' = (is_dirty \/ is_edit(action))
    /\ error' = NoError
    /\ content' = ContentEdit(content, action)
    /\ last' = Step("Edit", is_edit(action))
    /\ prev' = Before
    /\ run' = <<>>
    /\ delivered' = delivered
    /\ failure' = NoError
    /\ unsaved' = IF is_edit(action) THEN PendingLoads ELSE unsaved
    /\ UNCHANGED <<path, theme, disk, tasks, inbox, nextId, snapshot, written, synced>>

\* mutant: a load performed before one already applied is dropped
FileOpenedOk_NewestWins ==
    /\ inbox # <<>>
    /\ Head(inbox).type = "FileOpenedOk"
    /\ IF \A id \in DeliveredIds : id < Head(inbox).id
       THEN /\ path' = Head(inbox).path
            /\ content' = ContentWith(Head(inbox).text)
       ELSE UNCHANGED <<path, content>>
    /\ is_dirty' = FALSE
    /\ inbox' = Tail(inbox)
    /\ last' = Step(Head(inbox).type, FALSE)
    /\ prev' = Before
    /\ run' = Append(run, Head(inbox))
    /\ delivered' = Deliver(Head(inbox).id)
    /\ failure' = failure
    /\ synced' = <<Head(inbox).text>>
    /\ unsaved' = {}
    /\ UNCHANGED <<error, theme, disk, tasks, nextId, snapshot, written>>

\* mutant: a successful load clears the error
FileOpenedOk_ClearsError ==
    /\ inbox # <<>>
    /\ Head(inbox).type = "FileOpenedOk"
    /\ path' = Head(inbox).path
    /\ content' = ContentWith(Head(inbox).text)
    /\ is_dirty' = FALSE
    /\ error' = NoError
    /\ inbox' = Tail(inbox)
    /\ last' = Step(Head(inbox).type, FALSE)
    /\ prev' = Before
    /\ run' = Append(run, Head(inbox))
    /\ delivered' = Deliver(Head(inbox).id)
    /\ failure' = failure
    /\ synced' = <<Head(inbox).text>>
    /\ unsaved' = {}
    /\ UNCHANGED <<theme, disk, tasks, nextId, snapshot, written>>

\* mutant: a successful load leaves is_dirty as it was
FileOpenedOk_KeepsDirty ==
    /\ inbox # <<>>
    /\ Head(inbox).type = "FileOpenedOk"
    /\ path' = Head(inbox).path
    /\ content' = ContentWith(Head(inbox).text)
    /\ inbox' = Tail(inbox)
    /\ last' = Step(Head(inbox).type, FALSE)
    /\ prev' = Before
    /\ run' = Append(run, Head(inbox))
    /\ delivered' = Deliver(Head(inbox).id)
    /\ failure' = failure
    /\ synced' = <<Head(inbox).text>>
    /\ unsaved' = {}
    /\ UNCHANGED <<is_dirty, error, theme, disk, tasks, nextId, snapshot, written>>

FileOpenedOk ==
    /\ inbox # <<>>
    /\ Head(inbox).type = "FileOpenedOk"
    /\ path' = Head(inbox).path
    /\ content' = ContentWith(Head(inbox).text)
    /\ is_dirty' = FALSE
    /\ inbox' = Tail(inbox)
    /\ last' = Step(Head(inbox).type, FALSE)
    /\ prev' = Before
    /\ run' = Append(run, Head(inbox))
    /\ delivered' = Deliver(Head(inbox).id)
    /\ failure' = failure
    /\ synced' = <<Head(inbox).text>>
    /\ unsaved' = {}
    /\ UNCHANGED <<error, theme, disk, tasks, nextId, snapshot, written>>

\* mutant: a failed load is tried again with the default file
FileOpenedErr_Retries ==
    /\ inbox # <<>>
    /\ Head(inbox).type = "FileOpenedErr"
    /\ error' = Head(inbox).err
    /\ inbox' = Tail(inbox)
    /\ IF nextId < MaxEffects
       THEN /\ nextId' = nextId + 1
            /\ tasks' = tasks \cup {[id |-> nextId + 1, kind |-> "load", stage |-> "read",
                                     path |-> DefaultFile, text |-> <<>>]}
       ELSE UNCHANGED <<tasks, nextId>>
    /\ last' = Step(Head(inbox).type, FALSE)
    /\ prev' = Before
    /\ run' = <<>>
    /\ delivered' = Deliver(Head(inbox).id)
    /\ failure' = Head(inbox).err
    /\ UNCHANGED <<path, content, theme, is_dirty, disk,
                   snapshot, written, synced, unsaved>>

\* mutant: a failed load keeps the error already recorded
FileOpenedErr_KeepsFirst ==
    /\ inbox # <<>>
    /\ Head(inbox).type = "FileOpenedErr"
    /\ error' = IF error = NoError THEN Head(inbox).err ELSE error
    /\ inbox' = Tail(inbox)
    /\ last' = Step(Head(inbox).type, FALSE)
    /\ prev' = Before
    /\ run' = <<>>
    /\ delivered' = Deliver(Head(inbox).id)
    /\ failure' = Head(inbox).err
    /\ UNCHANGED <<path, content, theme, is_dirty, disk, tasks, nextId,
                   snapshot, written, synced, unsaved>>

FileOpenedErr ==
    /\ inbox # <<>>
    /\ Head(inbox).type = "FileOpenedErr"
    /\ error' = Head(inbox).err
    /\ inbox' = Tail(inbox)
    /\ last' = Step(Head(inbox).type, FALSE)
    /\ prev' = Before
    /\ run' = <<>>
    /\ delivered' = Deliver(Head(inbox).id)
    /\ failure' = Head(inbox).err
    /\ UNCHANGED <<path, content, theme, is_dirty, disk, tasks, nextId,
                   snapshot, written, synced, unsaved>>

\* mutant: Open abandons the loads still running
Open_Replaces ==
    /\ nextId < MaxEffects
    /\ nextId' = nextId + 1
    /\ tasks' = {u \in tasks : u.kind = "save"} \cup {[id |-> nextId + 1, kind |-> "pick", stage |-> "dialog",
                             path |-> NoPath, text |-> <<>>]}
    /\ last' = Step("Open", FALSE)
    /\ prev' = Before
    /\ run' = <<>>
    /\ UNCHANGED <<delivered, failure>>
    /\ UNCHANGED <<editor, disk, inbox, snapshot, written, synced, unsaved>>

\* mutant: Open clears the error before the dialog is shown
Open_ClearsError ==
    /\ nextId < MaxEffects
    /\ nextId' = nextId + 1
    /\ error' = NoError
    /\ tasks' = tasks \cup {[id |-> nextId + 1, kind |-> "pick", stage |-> "dialog",
                             path |-> NoPath, text |-> <<>>]}
    /\ last' = Step("Open", FALSE)
    /\ prev' = Before
    /\ run' = <<>>
    /\ UNCHANGED <<delivered, failure>>
    /\ UNCHANGED <<path, content, theme, is_dirty, disk, inbox, snapshot, written, synced, unsaved>>

Open ==
    /\ nextId < MaxEffects
    /\ nextId' = nextId + 1
    /\ tasks' = tasks \cup {[id |-> nextId + 1, kind |-> "pick", stage |-> "dialog",
                             path |-> NoPath, text |-> <<>>]}
    /\ last' = Step("Open", FALSE)
    /\ prev' = Before
    /\ run' = <<>>
    /\ UNCHANGED <<delivered, failure>>
    /\ UNCHANGED <<editor, disk, inbox, snapshot, written, synced, unsaved>>

\* mutant: New also clears the error
New_ClearsError ==
    /\ path' = NoPath
    /\ content' = ContentNew
    /\ is_dirty' = TRUE
    /\ error' = NoError
    /\ last' = Step("New", FALSE)
    /\ prev' = Before
    /\ run' = <<>>
    /\ UNCHANGED <<delivered, failure>>
    /\ unsaved' = {}
    /\ UNCHANGED <<theme, disk, tasks, inbox, nextId, snapshot, written, synced>>

New ==
    /\ path' = NoPath
    /\ content' = ContentNew
    /\ is_dirty' = TRUE
    /\ last' = Step("New", FALSE)
    /\ prev' = Before
    /\ run' = <<>>
    /\ UNCHANGED <<delivered, failure>>
    /\ unsaved' = {}
    /\ UNCHANGED <<error, theme, disk, tasks, inbox, nextId, snapshot, written, synced>>

\* mutant: Save opens the dialog even when the document has a path
Save_AlwaysAsks ==
    /\ nextId < MaxEffects
    /\ nextId' = nextId + 1
    /\ LET text == ContentText(content)
       IN  /\ tasks' = tasks \cup
                  {[id |-> nextId + 1, kind |-> "save",
                    stage |-> "dialog",
                    path |-> path, text |-> text]}
           /\ snapshot' = snapshot \cup {[id |-> nextId + 1, text |-> text]}
    /\ last' = Step("Save", FALSE)
    /\ prev' = Before
    /\ run' = <<>>
    /\ UNCHANGED <<delivered, failure>>
    /\ UNCHANGED <<editor, disk, inbox, written, synced, unsaved>>

\* mutant: Save clears is_dirty at once, before the file is written
Save_ClearsDirty ==
    /\ nextId < MaxEffects
    /\ nextId' = nextId + 1
    /\ LET text == ContentText(content)
       IN  /\ tasks' = tasks \cup
                  {[id |-> nextId + 1, kind |-> "save",
                    stage |-> IF path = NoPath THEN "dialog" ELSE "write",
                    path |-> path, text |-> text]}
           /\ snapshot' = snapshot \cup {[id |-> nextId + 1, text |-> text]}
    /\ is_dirty' = FALSE
    /\ last' = Step("Save", FALSE)
    /\ prev' = Before
    /\ run' = <<>>
    /\ UNCHANGED <<delivered, failure>>
    /\ UNCHANGED <<path, content, error, theme, disk, inbox, written, synced, unsaved>>

Save ==
    /\ nextId < MaxEffects
    /\ nextId' = nextId + 1
    /\ LET text == ContentText(content)
       IN  /\ tasks' = tasks \cup
                  {[id |-> nextId + 1, kind |-> "save",
                    stage |-> IF path = NoPath THEN "dialog" ELSE "write",
                    path |-> path, text |-> text]}
           /\ snapshot' = snapshot \cup {[id |-> nextId + 1, text |-> text]}
    /\ last' = Step("Save", FALSE)
    /\ prev' = Before
    /\ run' = <<>>
    /\ UNCHANGED <<delivered, failure>>
    /\ UNCHANGED <<editor, disk, inbox, written, synced, unsaved>>

\* mutant: a successful save does not record the path it wrote to
FileSavedOk_KeepsPath ==
    /\ inbox # <<>>
    /\ Head(inbox).type = "FileSavedOk"
    /\ is_dirty' = FALSE
    /\ inbox' = Tail(inbox)
    /\ last' = Step(Head(inbox).type, FALSE)
    /\ prev' = Before
    /\ run' = Append(run, Head(inbox))
    /\ delivered' = Deliver(Head(inbox).id)
    /\ failure' = failure
    /\ synced' = <<TextWritten(Head(inbox).id)>>
    /\ unsaved' = {}
    /\ snapshot' = {s \in snapshot : s.id # Head(inbox).id}
    /\ written' = {w \in written : w.id # Head(inbox).id}
    /\ UNCHANGED <<path, content, error, theme, disk, tasks, nextId>>

FileSavedOk ==
    /\ inbox # <<>>
    /\ Head(inbox).type = "FileSavedOk"
    /\ path' = Head(inbox).path
    /\ is_dirty' = FALSE
    /\ inbox' = Tail(inbox)
    /\ last' = Step(Head(inbox).type, FALSE)
    /\ prev' = Before
    /\ run' = Append(run, Head(inbox))
    /\ delivered' = Deliver(Head(inbox).id)
    /\ failure' = failure
    /\ synced' = <<TextWritten(Head(inbox).id)>>
    /\ unsaved' = {}
    /\ snapshot' = {s \in snapshot : s.id # Head(inbox).id}
    /\ written' = {w \in written : w.id # Head(inbox).id}
    /\ UNCHANGED <<content, error, theme, disk, tasks, nextId>>

\* mutant: a failed save clears is_dirty like a successful one
FileSavedErr_ClearsDirty ==
    /\ inbox # <<>>
    /\ Head(inbox).type = "FileSavedErr"
    /\ error' = Head(inbox).err
    /\ is_dirty' = FALSE
    /\ inbox' = Tail(inbox)
    /\ last' = Step(Head(inbox).type, FALSE)
    /\ prev' = Before
    /\ run' = <<>>
    /\ delivered' = Deliver(Head(inbox).id)
    /\ failure' = Head(inbox).err
    /\ snapshot' = {s \in snapshot : s.id # Head(inbox).id}
    /\ UNCHANGED <<path, content, theme, disk, tasks, nextId,
                   written, synced, unsaved>>

FileSavedErr ==
    /\ inbox # <<>>
    /\ Head(inbox).type = "FileSavedErr"
    /\ error' = Head(inbox).err
    /\ inbox' = Tail(inbox)
    /\ last' = Step(Head(inbox).type, FALSE)
    /\ prev' = Before
    /\ run' = <<>>
    /\ delivered' = Deliver(Head(inbox).id)
    /\ failure' = Head(inbox).err
    /\ snapshot' = {s \in snapshot : s.id # Head(inbox).id}
    /\ UNCHANGED <<path, content, theme, is_dirty, disk, tasks, nextId,
                   written, synced, unsaved>>

ThemeSelected(t) ==
    /\ theme' = t
    /\ last' = [Step("ThemeSelected", FALSE) EXCEPT !.arg = t]
    /\ prev' = Before
    /\ run' = <<>>
    /\ UNCHANGED <<delivered, failure>>
    /\ UNCHANGED <<path, content, error, is_dirty, disk, tasks, inbox, nextId,
                   snapshot, written, synced, unsaved>>

----------------------------------------------------------------------------
(* The futures: save_file, pick_file, load_file *)

Finish(t, m) ==
    /\ tasks' = tasks \ {t}
    /\ inbox' = Append(inbox, m)

\* mutant: a closed dialog ends pick_file without a message
pick_file_SilentCancel(t) ==
    /\ t \in tasks
    /\ t.kind = "pick"
    /\ t.stage = "dialog"
    /\ \/ tasks' = tasks \ {t} /\ inbox' = inbox
       \/ \E p \in Paths :
             /\ tasks' = (tasks \ {t}) \cup {[t EXCEPT !.path = p, !.stage = "read"]}
             /\ inbox' = inbox
    /\ last' = Step("future", FALSE)
    /\ prev' = Before
    /\ run' = run
    /\ UNCHANGED <<delivered, failure>>
    /\ UNCHANGED <<editor, disk, nextId, snapshot, written, synced, unsaved>>

\* pick_file up to its call of load_file: the dialog gives a path, or None
pick_file(t) ==
    /\ t \in tasks
    /\ t.kind = "pick"
    /\ t.stage = "dialog"
    /\ \/ Finish(t, Msg("FileOpenedErr", t.id, NoPath, <<>>, DialogClosed))
       \/ \E p \in Paths :
             /\ tasks' = (tasks \ {t}) \cup {[t EXCEPT !.path = p, !.stage = "read"]}
             /\ inbox' = inbox
    /\ last' = Step("future", FALSE)
    /\ prev' = Before
    /\ run' = run
    /\ UNCHANGED <<delivered, failure>>
    /\ UNCHANGED <<editor, disk, nextId, snapshot, written, synced, unsaved>>

\* save_file called with no path: the dialog gives a path, or None
save_file_dialog(t) ==
    /\ t \in tasks
    /\ t.kind = "save"
    /\ t.stage = "dialog"
    /\ \/ Finish(t, Msg("FileSavedErr", t.id, NoPath, <<>>, DialogClosed))
       \/ \E p \in Paths :
             /\ tasks' = (tasks \ {t}) \cup {[t EXCEPT !.path = p, !.stage = "write"]}
             /\ inbox' = inbox
    /\ last' = Step("future", FALSE)
    /\ prev' = Before
    /\ run' = run
    /\ UNCHANGED <<delivered, failure>>
    /\ UNCHANGED <<editor, disk, nextId, snapshot, written, synced, unsaved>>

load_file(t) ==
    /\ t \in tasks
    /\ t.stage = "read"
    /\ \/ Finish(t, Msg("FileOpenedOk", t.id, t.path, disk[t.path], NoError))
       \/ \E k \in IoKinds :
             Finish(t, Msg("FileOpenedErr", t.id, NoPath, <<>>, IoFailed(k)))
    /\ last' = Step("future", FALSE)
    /\ prev' = Before
    /\ run' = run
    /\ UNCHANGED <<delivered, failure>>
    /\ UNCHANGED <<editor, disk, nextId, snapshot, written, synced, unsaved>>

\* mutant: the future reads the buffer when it writes, not when Save was handled
WriteText_Live(t) == ContentText(content)

WriteText(t) == t.text

\* save_file from tokio::fs::write on
save_file(t) ==
    /\ t \in tasks
    /\ t.stage = "write"
    /\ \/ /\ disk' = [disk EXCEPT ![t.path] = WriteText(t)]
          /\ written' = written \cup
                 {[id |-> t.id, path |-> t.path, text |-> WriteText(t)]}
          /\ Finish(t, Msg("FileSavedOk", t.id, t.path, <<>>, NoError))
       \/ /\ \E k \in IoKinds :
                Finish(t, Msg("FileSavedErr", t.id, NoPath, <<>>, IoFailed(k)))
          /\ UNCHANGED <<disk, written>>
    /\ last' = Step("future", FALSE)
    /\ prev' = Before
    /\ run' = run
    /\ UNCHANGED <<delivered, failure>>
    /\ UNCHANGED <<editor, nextId, snapshot, synced, unsaved>>

----------------------------------------------------------------------------

Next ==
    \/ \E action \in Actions : Edit(action)
    \/ FileOpenedOk
    \/ FileOpenedErr
    \/ Open
    \/ New
    \/ Save
    \/ FileSavedOk
    \/ FileSavedErr
    \/ \E t \in Themes : ThemeSelected(t)
    \/ \E t \in tasks : pick_file(t)
    \/ \E t \in tasks : save_file_dialog(t)
    \/ \E t \in tasks : load_file(t)
    \/ \E t \in tasks : save_file(t)

Spec == Init /\ [][Next]_vars

\* A step of some future on the executor
FutureStep ==
    \E t \in tasks : pick_file(t) \/ save_file_dialog(t) \/ load_file(t) \/ save_file(t)

\* The runtime gives update the next finished future's message
Dispatch == FileOpenedOk \/ FileOpenedErr \/ FileSavedOk \/ FileSavedErr

\* The executor keeps polling futures that can proceed and the runtime keeps
\* handing finished futures' messages to update.
FairSpec == Spec /\ WF_vars(FutureStep) /\ WF_vars(Dispatch)

TypeOK ==
    /\ path \in Paths \cup {NoPath}
    /\ content.cursor \in 0..Len(content.text)
    /\ error \in Errors \cup {NoError}
    /\ theme \in Themes
    /\ is_dirty \in BOOLEAN
    /\ nextId \in 1..MaxEffects

----------------------------------------------------------------------------
(* Properties of the update function and the futures *)

CompletionErr == {"FileOpenedErr", "FileSavedErr"}
CompletionOk == {"FileOpenedOk", "FileSavedOk"}

\* the step just taken gave update a message of one of these types
Dispatched(types) == last'.type \in types /\ vars' # vars

SameText(c, t) == ContentText(c) = ContentText(ContentWith(t))

\* C1: whenever is_dirty is false, the buffer text is the text of the last
\* successful load or save given to update.
C1_CleanMeansSynced ==
    ~is_dirty => (synced # <<>> /\ SameText(content, synced[1]))

\* C2: what a save command writes to disk is the text content.text() returned
\* when Save was handled, whatever edits reached the buffer in the meantime.
C2_SaveWritesSnapshot ==
    \A w \in written : \E s \in snapshot : s.id = w.id /\ s.text = w.text

\* Only the startup load and one save were issued, the load has not finished, so
\* the step just taken is the save's write; nothing was loaded or saved before,
\* and the buffer is neither the snapshot nor a new document: an Insert came
\* between Save and the write.
C2_Witness ==
    /\ nextId = 2
    /\ last.type = "future"
    /\ \E t \in tasks : t.kind = "load"
    /\ synced = <<>>
    /\ content.text # <<>>
    /\ \E w \in written : \E s \in snapshot :
          /\ s.id = w.id
          /\ w.text = s.text
          /\ disk[w.path] = s.text
          /\ ContentText(content) # s.text

\* C3: FileOpened(Ok) never replaces a buffer that holds unsaved edits made
\* after that load was issued.
C3_NoEditLostToStaleLoad ==
    [][(Dispatched({"FileOpenedOk"}) /\ Head(inbox).id \in unsaved)
         => ContentText(content') = ContentText(content)]_vars

\* C4: right after FileOpened(Ok) or FileSaved(Ok) is_dirty is false; right
\* after an Edit whose action is an edit is_dirty is true.
C4_DirtyAfterEvent ==
    /\ last.type \in CompletionOk => ~is_dirty
    /\ (last.type = "Edit" /\ last.is_edit) => is_dirty

C4_Witness ==
    /\ last.type = "Edit"
    /\ last.is_edit
    /\ ~prev.is_dirty
    /\ is_dirty

\* C5: is_dirty goes from true to false only in FileOpened(Ok), FileSaved(Ok)
\* (New is allowed by the claim, and never does); an Edit that is not an edit
\* leaves is_dirty alone.
C5_DirtyStaysUntilSync ==
    [][/\ (is_dirty /\ ~is_dirty') => last'.type \in CompletionOk \cup {"New"}
       /\ (Dispatched({"Edit"}) /\ ~last'.is_edit) => is_dirty' = is_dirty]_vars

C5_Witness ==
    /\ last.type = "Save"
    /\ prev.is_dirty
    /\ is_dirty
    /\ \E s \in snapshot : s.id \in Running

\* C6: right after any Edit error is None, whatever it was before and whatever
\* commands are still running.
C6_EditClearsError ==
    last.type = "Edit" => error = NoError

C6_Witness ==
    /\ last.type = "Edit"
    /\ prev.error # NoError
    /\ error = NoError
    /\ tasks # {}

\* C7: error becomes non-None only when update is given FileOpened(Err(e)) or
\* FileSaved(Err(e)), and then it is e; any other step keeps it or clears it.
C7_OnlyFailureSetsError ==
    [][/\ (error' # error /\ error' # NoError) => Dispatched(CompletionErr)
       /\ Dispatched(CompletionErr) => error' = Head(inbox).err
       /\ ~Dispatched(CompletionErr) => (error' = error \/ error' = NoError)]_vars

C7_Witness ==
    /\ last.type = "FileOpenedErr"
    /\ prev.error.tag = "IoFailed"
    /\ error = DialogClosed

\* C8: path becomes present only when update is given FileOpened(Ok(p, _)) or
\* FileSaved(Ok(p)), and then it is p; New clears it; nothing else changes it.
C8_OnlySuccessSetsPath ==
    [][/\ (path' # path /\ path' # NoPath) => Dispatched(CompletionOk)
       /\ Dispatched(CompletionOk) => path' = Head(inbox).path
       /\ Dispatched({"New"}) => path' = NoPath
       /\ ~Dispatched(CompletionOk \cup {"New"}) => path' = path]_vars

C8_Witness ==
    /\ last.type = "FileSavedOk"
    /\ path = "b.txt"
    /\ \E i \in 1..Len(inbox) : inbox[i].type = "FileOpenedOk" /\ inbox[i].path # path

\* C9: FileOpened(Err(e)) and FileSaved(Err(e)) set error to e and leave
\* content, path, is_dirty and theme as they were.
C9_FailureLeavesDocument ==
    [][Dispatched(CompletionErr) =>
          /\ error' = Head(inbox).err
          /\ content' = content
          /\ path' = path
          /\ is_dirty' = is_dirty
          /\ theme' = theme]_vars

C9_Witness ==
    /\ last.type = "FileSavedErr"
    /\ error.tag = "IoFailed"
    /\ is_dirty
    /\ content.text # <<>>
    /\ path # NoPath

\* C10: FileOpened(Err(DialogClosed)) leaves content and path alone, and the
\* status bar then reads as it does for the same path with no error; the
\* status bar differs from that only when error is IoFailed.
C10_CancelShowsNoError ==
    [][/\ (Dispatched({"FileOpenedErr"}) /\ Head(inbox).err = DialogClosed) =>
            /\ content' = content
            /\ path' = path
            /\ status_bar(path', error') = status_bar(path', NoError)
       /\ status_bar(path, error) # status_bar(path, NoError) => error.tag = "IoFailed"]_vars

C10_Witness ==
    /\ last.type = "FileOpenedErr"
    /\ error = DialogClosed
    /\ prev.error.tag = "IoFailed"
    /\ status_bar(path, error) = "New file"

SaveIds == {s.id : s \in snapshot}

UserEvents == {"Edit", "Open", "New", "Save", "ThemeSelected"}

\* C11: Save right after FileOpened(Ok(p, c)), with no Edit between, performs
\* save_file(Some(p), c): the text handed to the write is the text that was read.
C11_RoundTrip ==
    [][(Dispatched({"Save"}) /\ last.type = "FileOpenedOk") =>
          \E t \in tasks' :
             /\ t \notin tasks
             /\ t.kind = "save"
             /\ t.path = path
             /\ t.text = synced[1]]_vars

\* C12: every command performed is running, or its one message waits in the
\* inbox, or update was given its message exactly once; FileSaved messages
\* belong to save commands and FileOpened messages to the others; no message
\* exists for a command that was never performed.
C12_OneEventPerEffect ==
    /\ Cardinality(Running) = Cardinality(tasks)
    /\ Cardinality(Waiting) = Len(inbox)
    /\ Running \cap Waiting = {}
    /\ Running \cap DeliveredIds = {}
    /\ Waiting \cap DeliveredIds = {}
    /\ Running \cup Waiting \cup DeliveredIds = 1..nextId
    /\ \A d \in delivered : d.n = 1
    /\ \A t \in tasks : t.kind = "save" <=> t.id \in SaveIds
    /\ \A i \in 1..Len(inbox) :
          IF inbox[i].id \in SaveIds
          THEN inbox[i].type \in {"FileSavedOk", "FileSavedErr"}
          ELSE inbox[i].type \in {"FileOpenedOk", "FileOpenedErr"}

C12_Witness ==
    /\ nextId = 2
    /\ tasks = {}
    /\ inbox = <<>>
    /\ delivered = {[id |-> 1, n |-> 1], [id |-> 2, n |-> 1]}

\* C16: New gives path None, an empty buffer and is_dirty true, performs no
\* command and leaves error and theme alone; on a document that is already
\* new it changes no field of the Editor.
C16_NewResets ==
    [][Dispatched({"New"}) =>
          /\ path' = NoPath
          /\ content' = ContentNew
          /\ is_dirty' = TRUE
          /\ error' = error
          /\ theme' = theme
          /\ tasks' = tasks /\ inbox' = inbox /\ nextId' = nextId /\ disk' = disk
          /\ (path = NoPath /\ content.text = <<>> /\ is_dirty) => editor' = editor]_vars

C16_Witness ==
    /\ last.type = "New"
    /\ prev.error # NoError
    /\ ~prev.is_dirty
    /\ error = prev.error
    /\ theme # "SolarizedDark"

\* C17: Open and Save change no field of the Editor; ThemeSelected(t) sets
\* theme to t and changes nothing else.
C17_RequestsKeepState ==
    [][/\ Dispatched({"Open", "Save"}) => editor' = editor
       /\ Dispatched({"ThemeSelected"}) =>
            /\ theme' = last'.arg
            /\ path' = path /\ content' = content
            /\ error' = error /\ is_dirty' = is_dirty
            /\ tasks' = tasks /\ inbox' = inbox /\ disk' = disk]_vars

C17_Witness ==
    /\ last.type = "Open"
    /\ prev.error # NoError
    /\ error = prev.error
    /\ is_dirty
    /\ content.text # <<>>
    /\ theme # "SolarizedDark"

\* C18: Open performs exactly one pick_file, Save exactly one save_file with
\* the current path and text, Editor::new exactly one load_file of the default
\* file; every other message performs no command.
C18_AtMostOneEffect ==
    [][/\ Dispatched({"Open"}) =>
            \E t \in tasks' :
               /\ t \notin tasks /\ tasks' = tasks \cup {t}
               /\ t.kind = "pick" /\ t.stage = "dialog"
               /\ nextId' = nextId + 1 /\ t.id = nextId'
       /\ Dispatched({"Save"}) =>
            \E t \in tasks' :
               /\ t \notin tasks /\ tasks' = tasks \cup {t}
               /\ t.kind = "save" /\ t.path = path /\ t.text = ContentText(content)
               /\ nextId' = nextId + 1 /\ t.id = nextId'
       /\ Dispatched({"Edit", "New", "ThemeSelected"} \cup CompletionOk \cup CompletionErr) =>
            tasks' = tasks /\ nextId' = nextId
       /\ last.type = "Init" =>
            /\ nextId = 1 /\ inbox = <<>>
            /\ tasks = {[id |-> 1, kind |-> "load", stage |-> "read",
                         path |-> DefaultFile, text |-> <<>>]}]_vars

C18_Witness ==
    /\ last.type = "Save"
    /\ Cardinality(tasks) = 2
    /\ \E t \in tasks : t.kind = "load"
    /\ \E t \in tasks : t.kind = "save" /\ t.path = path /\ t.text = ContentText(content)

\* C19: the disk changes only in the write of a save command that Save
\* performed, once per command and at the path resolved for that command;
\* no message given to update and no other future writes.
C19_WritesOnlyForSave ==
    [][/\ (disk' # disk \/ ~(written' \subseteq written)) =>
            \E t \in tasks :
               /\ t \notin tasks'
               /\ t.kind = "save" /\ t.stage = "write"
               /\ t.id \in SaveIds
               /\ t.id \notin {w.id : w \in written} \cup DeliveredIds
               /\ disk' = [disk EXCEPT ![t.path] = t.text]
               /\ written' = written \cup {[id |-> t.id, path |-> t.path, text |-> t.text]}
       /\ last'.type \in UserEvents \cup CompletionOk \cup CompletionErr => disk' = disk
       /\ Cardinality(written) <= Cardinality(snapshot)]_vars

C19_Witness ==
    \E w \in written :
        /\ w.id \in SaveIds
        /\ w.path = "b.txt"
        /\ disk[w.path] = w.text
        /\ w.text = <<"a", NL>>

\* C20: error is the error of the most recent failed command unless an Edit
\* came after it, and None otherwise; a later successful load or save, New,
\* Open, Save and ThemeSelected leave it as it is.
C20_ErrorIsLastFailure ==
    error = failure

C20_Witness ==
    /\ last.type \in CompletionOk
    /\ prev.error # NoError
    /\ error = prev.error

Sent == inbox'[Len(inbox')]

Gone(t) == \A u \in tasks' : u.id # t.id

\* C15: a save command performed with a path has no dialog and ends with
\* FileSaved(Ok(p)), having written to p, or with IoFailed, having written
\* nothing; one performed without a path has the dialog first: closed, it ends
\* with DialogClosed and nothing written, else it goes on to write to the path
\* chosen.
C15_SavePathAndFailure ==
    [][/\ Dispatched({"Save"}) =>
            \E t \in tasks' : t \notin tasks /\ t.path = path
                              /\ t.stage = IF path = NoPath THEN "dialog" ELSE "write"
       /\ \A t \in tasks : (t.kind = "save" /\ t \notin tasks') =>
            IF t.stage = "write"
            THEN /\ t.path # NoPath
                 /\ Gone(t)
                 /\ Len(inbox') = Len(inbox) + 1
                 /\ Sent.id = t.id
                 /\ \/ /\ Sent.type = "FileSavedOk"
                       /\ Sent.path = t.path
                       /\ disk' = [disk EXCEPT ![t.path] = t.text]
                    \/ /\ Sent.type = "FileSavedErr"
                       /\ Sent.err.tag = "IoFailed"
                       /\ disk' = disk
            ELSE /\ t.path = NoPath
                 /\ disk' = disk
                 /\ \/ /\ Gone(t)
                       /\ Len(inbox') = Len(inbox) + 1
                       /\ Sent.id = t.id
                       /\ Sent.type = "FileSavedErr"
                       /\ Sent.err = DialogClosed
                    \/ /\ inbox' = inbox
                       /\ \E q \in Paths :
                             [t EXCEPT !.path = q, !.stage = "write"] \in tasks']_vars

C15_Witness ==
    /\ \E i \in 1..Len(inbox) :
          /\ inbox[i].type = "FileSavedErr"
          /\ inbox[i].err = DialogClosed
          /\ inbox[i].id \in SaveIds
    /\ written = {}
    /\ disk[DefaultFile] = IncludedText
    /\ disk["b.txt"] = <<NL>>

\* C13: under fair scheduling every command that is running or whose message
\* waits is eventually given to update, however many other commands were
\* performed while it was pending.
C13_PendingEventuallyDelivered ==
    \A id \in 1..MaxEffects :
        (id \in Running \cup Waiting) ~> (id \in DeliveredIds)

\* The command performed second was given to update while the message of the
\* first, still pending when the second was performed, waits its turn.
C13_Witness ==
    /\ nextId = 2
    /\ 2 \in DeliveredIds
    /\ 1 \in Waiting
    /\ tasks = {}

====
